---- MODULE Spec2Model ----
(***************************************************************************)
(* Butterfly factorizations (butterfly.py): the Butterfly factor, the      *)
(* MatrixProduct composer, the ButterflyProduct and the Sinkhorn           *)
(* normalizer, as state machines over a heap of tensors.                   *)
(*                                                                         *)
(* A tensor is [shape, data]: data is the row-major storage, as in torch.  *)
(* A float is modelled by an exact rational <<p, q>> (q > 0, lowest        *)
(* terms); rounding is not modelled.  Tensors that the program holds by    *)
(* reference live in `heap` (a cell per tensor object), so that in-place   *)
(* updates (+=, -=) and aliasing (output = input_) are what the code does.  *)
(***************************************************************************)
EXTENDS Integers, Sequences, FiniteSets, TLC

VARIABLES heap, obj, args, err, x_after, ret

vars == <<heap, obj, args, err, x_after, ret>>

(***************************************************************************)
(* Bounds of the model.                                                    *)
(***************************************************************************)
\* Butterfly factors of size 1..MaxSize are constructed directly.
MaxSize == 4

(***************************************************************************)
(* Scalars.                                                                *)
(***************************************************************************)
Abs(a) == IF a < 0 THEN -a ELSE a

RECURSIVE GCD(_, _)
GCD(a, b) == IF b = 0 THEN a ELSE GCD(b, a % b)

Rat(p, q) == LET g == GCD(Abs(p), q) IN <<p \div g, q \div g>>

Q(i) == <<i, 1>>

RAdd(a, b) ==
    IF a[2] = b[2] THEN (IF a[2] = 1 THEN <<a[1] + b[1], 1>> ELSE Rat(a[1] + b[1], a[2]))
    ELSE LET g == GCD(a[2], b[2])
         IN  Rat(a[1] * (b[2] \div g) + b[1] * (a[2] \div g), (a[2] \div g) * b[2])

RNeg(a) == <<-a[1], a[2]>>

RSub(a, b) == RAdd(a, RNeg(b))

RMul(a, b) ==
    IF a[2] = 1 /\ b[2] = 1 THEN <<a[1] * b[1], 1>>
    ELSE IF a[1] = 0 \/ b[1] = 0 THEN <<0, 1>>
    ELSE LET g1 == GCD(Abs(a[1]), b[2])
             g2 == GCD(Abs(b[1]), a[2])
         IN  <<(a[1] \div g1) * (b[1] \div g2), (a[2] \div g2) * (b[2] \div g1)>>

\* a / b for b > 0
RDiv(a, b) == RMul(a, <<b[2], b[1]>>)

RECURSIVE RSum(_)
RSum(s) == IF s = <<>> THEN Q(0) ELSE RAdd(Head(s), RSum(Tail(s)))

RECURSIVE RPow(_, _)
RPow(a, e) == IF e = 0 THEN Q(1) ELSE RMul(a, RPow(a, e - 1))

(***************************************************************************)
(* Tensors: shapes, indices (0-based, as in Python), construction.         *)
(***************************************************************************)
RECURSIVE Prod(_)
Prod(s) == IF s = <<>> THEN 1 ELSE Head(s) * Prod(Tail(s))

Numel(shape) == Prod(shape)

\* the multi-index of storage offset off (tensors have at most 4 dimensions)
Unravel(shape, off) ==
    CASE Len(shape) = 1 -> <<off>>
      [] Len(shape) = 2 -> <<off \div shape[2], off % shape[2]>>
      [] Len(shape) = 3 -> <<off \div (shape[2] * shape[3]),
                             (off \div shape[3]) % shape[2], off % shape[3]>>
      [] Len(shape) = 4 -> <<off \div (shape[2] * shape[3] * shape[4]),
                             (off \div (shape[3] * shape[4])) % shape[2],
                             (off \div shape[4]) % shape[3], off % shape[4]>>

\* the storage offset of multi-index idx
Ravel(shape, idx) ==
    CASE Len(shape) = 1 -> idx[1]
      [] Len(shape) = 2 -> idx[1] * shape[2] + idx[2]
      [] Len(shape) = 3 -> (idx[1] * shape[2] + idx[2]) * shape[3] + idx[3]
      [] Len(shape) = 4 -> ((idx[1] * shape[2] + idx[2]) * shape[3] + idx[3]) * shape[4] + idx[4]

\* the sequence whose i-th element is f[i], for f a function on 1..n
List(f) == f \o <<>>

Tensor(shape, Elem(_)) ==
    [shape |-> shape,
     data  |-> List([o \in 1..Numel(shape) |-> Elem(Unravel(shape, o - 1))])]

At(t, idx) == t.data[Ravel(t.shape, idx) + 1]

\* The outcome of a tensor operation that raises (a shape mismatch).
RuntimeError == [shape |-> <<>>, data |-> <<>>]

IsErr(t) == t = RuntimeError

\* torch.tensor(list of ints)
FromInts(shape, ints) ==
    [shape |-> shape, data |-> List([o \in 1..Len(ints) |-> Q(ints[o])])]

(***************************************************************************)
(* Broadcasting element-wise operations on tensors of equal rank.          *)
(***************************************************************************)
CanBroadcast(s1, s2) ==
    /\ Len(s1) = Len(s2)
    /\ \A d \in 1..Len(s1) : s1[d] = s2[d] \/ s1[d] = 1 \/ s2[d] = 1

BroadcastShape(s1, s2) ==
    [d \in 1..Len(s1) |-> IF s1[d] = 1 THEN s2[d] ELSE s1[d]]

BIdx(shape, idx) == [d \in 1..Len(shape) |-> IF shape[d] = 1 THEN 0 ELSE idx[d]]

Elementwise(a, b, Op(_, _)) ==
    IF IsErr(a) \/ IsErr(b) \/ ~CanBroadcast(a.shape, b.shape) THEN RuntimeError
    ELSE Tensor(BroadcastShape(a.shape, b.shape),
                LAMBDA idx : Op(At(a, BIdx(a.shape, idx)), At(b, BIdx(b.shape, idx))))

\* a + b
TAdd(a, b) == Elementwise(a, b, RAdd)

\* operator.mul: a * b
TMul(a, b) == Elementwise(a, b, RMul)

(***************************************************************************)
(* Python slicing  t[..., start:stop]  along dimension dim.                *)
(***************************************************************************)
\* a slice bound i, for a dimension of length len
PyBound(i, len) ==
    LET j == IF i < 0 THEN i + len ELSE i
    IN  IF j < 0 THEN 0 ELSE IF j > len THEN len ELSE j

\* the elements lo..hi-1 of dimension dim
Narrow(t, dim, lo, hi) ==
    LET n == IF hi > lo THEN hi - lo ELSE 0
    IN  Tensor([t.shape EXCEPT ![dim] = n],
               LAMBDA idx : At(t, [idx EXCEPT ![dim] = idx[dim] + lo]))

\* t[..., k:] on the size axis
SliceFrom(t, dim, k) ==
    Narrow(t, dim, PyBound(k, t.shape[dim]), t.shape[dim])

\* t[..., :-k] on the size axis (for k = 0 this is t[..., :0], the empty slice)
SliceUntilNeg(t, dim, k) ==
    Narrow(t, dim, 0, PyBound(-k, t.shape[dim]))

\* view[...] += rhs where view = t[..., lo:hi) on dimension dim: the new value
\* of t, or RuntimeError when rhs does not broadcast to the view's shape.
IAddNarrow(t, dim, lo, hi, rhs) ==
    LET n   == IF hi > lo THEN hi - lo ELSE 0
        vsh == [t.shape EXCEPT ![dim] = n]
    IN  IF IsErr(rhs) \/ ~CanBroadcast(vsh, rhs.shape)
           \/ BroadcastShape(vsh, rhs.shape) # vsh
        THEN RuntimeError
        ELSE Tensor(t.shape,
                LAMBDA idx :
                    IF idx[dim] >= lo /\ idx[dim] < hi
                    THEN RAdd(At(t, idx),
                              At(rhs, BIdx(rhs.shape, [idx EXCEPT ![dim] = idx[dim] - lo])))
                    ELSE At(t, idx))

(***************************************************************************)
(* torch.diag, torch.diag_embed, Tensor.t().                               *)
(***************************************************************************)
\* torch.diag(v, offset) of a 1-D tensor
TorchDiag(v, offset) ==
    LET n == v.shape[1] + Abs(offset)
    IN  Tensor(<<n, n>>,
               LAMBDA idx :
                   IF idx[2] - idx[1] = offset
                   THEN At(v, <<IF offset >= 0 THEN idx[1] ELSE idx[2]>>)
                   ELSE Q(0))

\* t.transpose(d1, d2) (dimensions numbered from 1 here)
TransposeDims(t, d1, d2) ==
    IF IsErr(t) THEN RuntimeError
    ELSE Tensor([t.shape EXCEPT ![d1] = t.shape[d2], ![d2] = t.shape[d1]],
                LAMBDA idx : At(t, [idx EXCEPT ![d1] = idx[d2], ![d2] = idx[d1]]))

\* t.t() of a 2-D tensor
Transpose(t) == TransposeDims(t, 1, 2)

\* torch.diag_embed(v, offset, dim1=0, dim2=1) of a 2-D tensor v of shape
\* (c, len): out[i][j][c] holds v[c][.] on the diagonal j - i = offset.
TorchDiagEmbed01(v, offset) ==
    LET n == v.shape[2] + Abs(offset)
    IN  Tensor(<<n, n, v.shape[1]>>,
               LAMBDA idx :
                   IF idx[2] - idx[1] = offset
                   THEN At(v, <<idx[3], IF offset >= 0 THEN idx[1] ELSE idx[2]>>)
                   ELSE Q(0))

(***************************************************************************)
(* operator.matmul (a @ b) for the ranks the program uses: vector @ matrix, *)
(* matrix @ matrix, and a 3-D tensor @ matrix (a batch of matrices, one per *)
(* index of the first dimension, each multiplied by b).                     *)
(***************************************************************************)
Dot(n, A(_), B(_)) == RSum([k \in 1..n |-> RMul(A(k - 1), B(k - 1))])

Matmul(a, b) ==
    IF IsErr(a) \/ IsErr(b) \/ Len(b.shape) # 2 THEN RuntimeError
    ELSE IF Len(a.shape) = 1 THEN
        IF a.shape[1] # b.shape[1] THEN RuntimeError
        ELSE Tensor(<<b.shape[2]>>,
                 LAMBDA idx : Dot(a.shape[1], LAMBDA k : At(a, <<k>>),
                                              LAMBDA k : At(b, <<k, idx[1]>>)))
    ELSE IF Len(a.shape) = 2 THEN
        IF a.shape[2] # b.shape[1] THEN RuntimeError
        ELSE Tensor(<<a.shape[1], b.shape[2]>>,
                 LAMBDA idx : Dot(a.shape[2], LAMBDA k : At(a, <<idx[1], k>>),
                                              LAMBDA k : At(b, <<k, idx[2]>>)))
    ELSE IF Len(a.shape) = 3 THEN
        IF a.shape[3] # b.shape[1] THEN RuntimeError
        ELSE Tensor(<<a.shape[1], a.shape[2], b.shape[2]>>,
                 LAMBDA idx : Dot(a.shape[3], LAMBDA k : At(a, <<idx[1], idx[2], k>>),
                                              LAMBDA k : At(b, <<k, idx[3]>>)))
    ELSE RuntimeError

(***************************************************************************)
(* complex_utils: tensors with a trailing (real, imag) axis of size 2.     *)
(***************************************************************************)
\* the index idx with its last component set to c
WithLast(idx, c) == [idx EXCEPT ![Len(idx)] = c]

IsComplexShape(shape) == Len(shape) >= 1 /\ shape[Len(shape)] = 2

\* (ar*br - ai*bi, ar*bi + ai*br)
CMulRe(ar, ai, br, bi) == RSub(RMul(ar, br), RMul(ai, bi))

CMulIm(ar, ai, br, bi) == RAdd(RMul(ar, bi), RMul(ai, br))

\* complex_mul(a, b): the element-wise complex product, broadcasting
complex_mul(a, b) ==
    IF IsErr(a) \/ IsErr(b) THEN RuntimeError
    ELSE IF ~IsComplexShape(a.shape) \/ ~IsComplexShape(b.shape)
            \/ ~CanBroadcast(a.shape, b.shape) THEN RuntimeError
    ELSE Tensor(BroadcastShape(a.shape, b.shape),
             LAMBDA idx :
                 LET ar == At(a, BIdx(a.shape, WithLast(idx, 0)))
                     ai == At(a, BIdx(a.shape, WithLast(idx, 1)))
                     br == At(b, BIdx(b.shape, WithLast(idx, 0)))
                     bi == At(b, BIdx(b.shape, WithLast(idx, 1)))
                 IN  IF idx[Len(idx)] = 0 THEN CMulRe(ar, ai, br, bi)
                     ELSE CMulIm(ar, ai, br, bi))

\* the complex dot product sum_k a(k) * b(k), component c (0 real, 1 imag)
CDot(n, c, A(_, _), B(_, _)) ==
    RSum([k \in 1..n |->
            IF c = 0 THEN CMulRe(A(k - 1, 0), A(k - 1, 1), B(k - 1, 0), B(k - 1, 1))
            ELSE CMulIm(A(k - 1, 0), A(k - 1, 1), B(k - 1, 0), B(k - 1, 1))])

\* complex_matmul(a, b): a of shape (n, 2) (a vector) or (m, n, 2), b of
\* shape (n, p, 2)
complex_matmul(a, b) ==
    IF IsErr(a) \/ IsErr(b) THEN RuntimeError
    ELSE IF ~IsComplexShape(a.shape) \/ ~IsComplexShape(b.shape) \/ Len(b.shape) # 3
        THEN RuntimeError
    ELSE IF Len(a.shape) = 2 THEN
        IF a.shape[1] # b.shape[1] THEN RuntimeError
        ELSE Tensor(<<b.shape[2], 2>>,
                 LAMBDA idx : CDot(a.shape[1], idx[2],
                                   LAMBDA k, c : At(a, <<k, c>>),
                                   LAMBDA k, c : At(b, <<k, idx[1], c>>)))
    ELSE IF Len(a.shape) = 3 THEN
        IF a.shape[2] # b.shape[1] THEN RuntimeError
        ELSE Tensor(<<a.shape[1], b.shape[2], 2>>,
                 LAMBDA idx : CDot(a.shape[2], idx[3],
                                   LAMBDA k, c : At(a, <<idx[1], k, c>>),
                                   LAMBDA k, c : At(b, <<k, idx[2], c>>)))
    ELSE RuntimeError

(***************************************************************************)
(* Values the callers pass.                                                *)
(***************************************************************************)
\* Python's None
None == [none |-> TRUE]

IsNone(v) == "none" \in DOMAIN v

\* test_butterfly: diag = torch.tensor([[1, 2], [2, 3], [3, 4], [4, 5]])
test_diag == FromInts(<<4, 2>>, <<1, 2, 2, 3, 3, 4, 4, 5>>)

\* test_butterfly: subdiag = torch.tensor([[11, 12], [12, 13], [13, 14]])
test_subdiag == FromInts(<<3, 2>>, <<11, 12, 12, 13, 13, 14>>)

\* The values torch.randn may return are any floats: the model draws the
\* tensor that holds a + s * (o mod 3) at storage offset o, for a seed <<a, s>>.
\* The draws of the three parameters (diag, subdiag, superdiag) of one factor.
SeedsList == <<<<<<1, 1>>, <<1, 1>>, <<-1, 1>>>>,
               <<<<1, 1>>, <<-1, 1>>, <<1, 1>>>>,
               <<<<-1, 1>>, <<1, 1>>, <<2, -1>>>>>>

Seeds3 == {SeedsList[j] : j \in 1..Len(SeedsList)}

randn(shape, seed) ==
    [shape |-> shape,
     data  |-> List([o \in 1..Numel(shape) |-> Q(seed[1] + seed[2] * ((o - 1) % 3))])]

\* The cells of the caller's own tensors, allocated before any construction:
\* cell 1 is test_diag, cell 2 is test_subdiag.
CallerHeap == <<test_diag, test_subdiag>>

\* A tensor argument is 0 for None, or the cell of a caller's tensor.  The
\* <<diag, subdiag, superdiag>> arguments the callers pass: none, those of
\* test_butterfly (subdiag and superdiag are one tensor object), and others.
TensorArgs == {<<0, 0, 0>>, <<1, 2, 2>>, <<1, 0, 0>>, <<0, 2, 0>>, <<0, 0, 1>>, <<2, 2, 2>>}

(***************************************************************************)
(* class Butterfly                                                         *)
(***************************************************************************)
NoObj == [cls |-> "None"]

\* diag_shape, and subdiag_shape = superdiag_shape
diag_shape(size, complex) == IF complex THEN <<size, 2>> ELSE <<size>>

subdiag_shape(size, diagonal, complex) ==
    IF complex THEN <<size - diagonal, 2>> ELSE <<size - diagonal>>

\* The assertions of Butterfly.__init__, in the order they are evaluated.
ButterflyAsserts(h, size, diagonal, complex, diag, subdiag, superdiag) ==
    /\ size > diagonal
    /\ diag = 0 \/ h[diag].shape = diag_shape(size, complex)
    /\ subdiag = 0 \/ h[subdiag].shape = subdiag_shape(size, diagonal, complex)
    /\ superdiag = 0 \/ h[superdiag].shape = subdiag_shape(size, diagonal, complex)

\* self.p = nn.Parameter(torch.randn(shape)) when the argument is None (a new
\* cell), self.p = p otherwise (the caller's own tensor object).
\* Returns the heap and the cell of the parameter.
ParamCell(h, arg, shape, seed) ==
    IF arg = 0 THEN [heap |-> Append(h, randn(shape, seed)), cell |-> Len(h) + 1]
    ELSE [heap |-> h, cell |-> arg]

\* Butterfly.__init__ once its assertions hold: the heap and the object.
ButterflyNew(h, size, diagonal, complex, diag, subdiag, superdiag, seeds) ==
    LET d  == ParamCell(h, diag, diag_shape(size, complex), seeds[1])
        sb == ParamCell(d.heap, subdiag, subdiag_shape(size, diagonal, complex), seeds[2])
        sp == ParamCell(sb.heap, superdiag, subdiag_shape(size, diagonal, complex), seeds[3])
    IN  [heap |-> sp.heap,
         obj  |-> [cls |-> "Butterfly", size |-> size, diagonal |-> diagonal,
                   complex |-> complex,
                   diag |-> d.cell, subdiag |-> sb.cell, superdiag |-> sp.cell]]

\* A slip in matrix(): the signs of the two offsets exchanged.
Butterfly_matrixSwapped(h, F) ==
    IF ~F.complex
    THEN TAdd(TAdd(TorchDiag(h[F.diag], 0),
                   TorchDiag(h[F.subdiag], F.diagonal)),
              TorchDiag(h[F.superdiag], -F.diagonal))
    ELSE TAdd(TAdd(TorchDiagEmbed01(Transpose(h[F.diag]), 0),
                   TorchDiagEmbed01(Transpose(h[F.subdiag]), F.diagonal)),
              TorchDiagEmbed01(Transpose(h[F.superdiag]), -F.diagonal))

\* Butterfly.matrix(): a new tensor, or RuntimeError
Butterfly_matrix(h, F) ==
    IF ~F.complex
    THEN TAdd(TAdd(TorchDiag(h[F.diag], 0),
                   TorchDiag(h[F.subdiag], -F.diagonal)),
              TorchDiag(h[F.superdiag], F.diagonal))
    ELSE TAdd(TAdd(TorchDiagEmbed01(Transpose(h[F.diag]), 0),
                   TorchDiagEmbed01(Transpose(h[F.subdiag]), -F.diagonal)),
              TorchDiagEmbed01(Transpose(h[F.superdiag]), F.diagonal))

\* self.mul_op
mul_op(F, a, b) == IF F.complex THEN complex_mul(a, b) ELSE TMul(a, b)

\* The outcome of a call: the heap after it, the cell of the returned tensor
\* (0 when the call raised).
Returned(h, cell) == [heap |-> h, ret |-> cell, raised |-> FALSE]

Raised(h) == [heap |-> h, ret |-> 0, raised |-> TRUE]

\* the outcome of an expression whose value is v (a new tensor, or an error)
NewTensor(h, v) == IF IsErr(v) THEN Raised(h) ELSE Returned(Append(h, v), Len(h) + 1)

\* the outcome of an in-place update of the tensor in cell c to the value v
Updated(h, c, v) == IF IsErr(v) THEN Raised(h) ELSE Returned([h EXCEPT ![c] = v], c)

\* output = self.mul_op(self.diag, input_): a new tensor
ButterflyOutput(h, F, x) == NewTensor(h, mul_op(F, h[F.diag], h[x]))

\* A slip in the sub-diagonal term: the slice of the super-diagonal term,
\* input_[..., self.diagonal:], is read.
ButterflyAddSubWrongSlice(o, F, x) ==
    IF o.raised THEN o
    ELSE Updated(o.heap, o.ret,
                 IAddNarrow(o.heap[o.ret], 1, PyBound(F.diagonal, o.heap[o.ret].shape[1]),
                            o.heap[o.ret].shape[1],
                            mul_op(F, o.heap[F.subdiag], SliceFrom(o.heap[x], 1, F.diagonal))))

\* output[..., self.diagonal:] += self.mul_op(self.subdiag, input_[..., :-self.diagonal])
\* (o is the outcome of the statements before it, o.ret the cell of output)
ButterflyAddSub(o, F, x) ==
    IF o.raised THEN o
    ELSE Updated(o.heap, o.ret,
                 IAddNarrow(o.heap[o.ret], 1, PyBound(F.diagonal, o.heap[o.ret].shape[1]),
                            o.heap[o.ret].shape[1],
                            mul_op(F, o.heap[F.subdiag], SliceUntilNeg(o.heap[x], 1, F.diagonal))))

\* output[..., :-self.diagonal] += self.mul_op(self.superdiag, input_[..., self.diagonal:])
ButterflyAddSuper(o, F, x) ==
    IF o.raised THEN o
    ELSE Updated(o.heap, o.ret,
                 IAddNarrow(o.heap[o.ret], 1, 0, PyBound(-F.diagonal, o.heap[o.ret].shape[1]),
                            mul_op(F, o.heap[F.superdiag], SliceFrom(o.heap[x], 1, F.diagonal))))

\* Butterfly.forward(input_), input_ the tensor in cell x
Butterfly_forward(h, F, x) ==
    ButterflyAddSuper(ButterflyAddSub(ButterflyOutput(h, F, x), F, x), F, x)

(***************************************************************************)
(* torch.stack, Tensor.reshape, t[i], softmax.                             *)
(***************************************************************************)
RECURSIVE Concat(_)
Concat(ss) == IF ss = <<>> THEN <<>> ELSE Head(ss) \o Concat(Tail(ss))

\* torch.stack(ts): a new first dimension (raises on an empty list)
TorchStack(ts) ==
    IF ts = <<>> \/ \E j \in 1..Len(ts) : IsErr(ts[j]) \/ ts[j].shape # ts[1].shape
    THEN RuntimeError
    ELSE [shape |-> <<Len(ts)>> \o ts[1].shape,
          data  |-> Concat([j \in 1..Len(ts) |-> ts[j].data])]

\* t.reshape(shape) of a contiguous tensor: the same storage
Reshape(t, shape) ==
    IF IsErr(t) \/ Numel(shape) # Len(t.data) THEN RuntimeError
    ELSE [shape |-> shape, data |-> t.data]

\* t.reshape(t.shape[0], -1)
Flatten2(t) ==
    IF IsErr(t) THEN RuntimeError
    ELSE Reshape(t, <<t.shape[1], Numel(Tail(t.shape))>>)

\* t[i]: the i-th tensor along the first dimension (i from 0)
Select(t, i) ==
    LET sh == Tail(t.shape)
    IN  [shape |-> sh, data |-> SubSeq(t.data, i * Numel(sh) + 1, (i + 1) * Numel(sh))]

\* The cell of a logit tensor holds w = exp(logit) for each entry (an entry 0
\* is the logit -inf), so that softmax and logsumexp are rational:
\* softmax(logit)[j] = w[j] / sum(w), and logit - logsumexp(logit) is
\* w / sum(w).  logit / temperature is w^(1/temperature), for a temperature
\* <<1, b>> = 1/b.
DivTemperature(t, temperature) ==
    [shape |-> t.shape,
     data  |-> List([o \in 1..Len(t.data) |->
                         RPow(t.data[o], temperature[2] \div temperature[1])])]

\* sum of w over dimension dim (numbered from 1) at the position of idx
SumOver(t, dim, idx) ==
    RSum([k \in 1..t.shape[dim] |-> At(t, [idx EXCEPT ![dim] = k - 1])])

\* nn.functional.softmax(logit, dim=-1), on the cell's w = exp(logit)
softmax(t) ==
    Tensor(t.shape, LAMBDA idx : RDiv(At(t, idx), SumOver(t, Len(t.shape), idx)))

(***************************************************************************)
(* class MatrixProduct                                                     *)
(***************************************************************************)
SoftmaxFns == <<"softmax", "sparsemax">>

\* assert softmax_fn in ['softmax', 'sparsemax']
SoftmaxFnKnown(softmax_fn) == \E j \in 1..Len(SoftmaxFns) : SoftmaxFns[j] = softmax_fn

\* the default n_terms=None, as a number that is no term count
NTermsNone == -1

n_terms_of(factors, n_terms) == IF n_terms = NTermsNone THEN Len(factors) ELSE n_terms

\* The assertion of MatrixProduct.__init__: it is evaluated in learned-order
\* mode only.
MatrixProductAsserts(fixed_order, softmax_fn) ==
    fixed_order \/ SoftmaxFnKnown(softmax_fn)

\* MatrixProduct.__init__ once its assertion holds.  self.logit is a new
\* cell (randn), in learned-order mode only.
MatrixProductNew(h, factors, n_terms, complex, fixed_order, softmax_fn, seed) ==
    LET t == n_terms_of(factors, n_terms)
        o == [cls |-> "MatrixProduct", factors |-> factors, n_terms |-> t,
              complex |-> complex, fixed_order |-> fixed_order]
    IN  IF fixed_order
        THEN [heap |-> h, obj |-> o @@ [logit |-> 0, softmax_fn |-> ""]]
        ELSE [heap |-> Append(h, randn(<<t, Len(factors)>>, seed)),
              obj  |-> o @@ [logit |-> Len(h) + 1, softmax_fn |-> softmax_fn]]

\* self.matmul_op
matmul_op(P, a, b) == IF P.complex THEN complex_matmul(a, b) ELSE Matmul(a, b)

\* functools.reduce(self.matmul_op, matrices): ((m1 m2) m3) ...; raises on
\* an empty sequence
RECURSIVE ReduceMatmul(_, _, _, _)
ReduceMatmul(P, acc, matrices, j) ==
    IF j > Len(matrices) THEN acc
    ELSE ReduceMatmul(P, matmul_op(P, acc, matrices[j]), matrices, j + 1)

reduce_matmul(P, matrices) ==
    IF matrices = <<>> THEN RuntimeError
    ELSE ReduceMatmul(P, matrices[1], matrices, 2)

\* prob = self.softmax_fn(self.logit / temperature)
Prob(h, P, temperature) == softmax(DivTemperature(h[P.logit], temperature))

\* [factor.matrix() for factor in self.factors]
FactorMatrices(h, P) ==
    List([j \in 1..Len(P.factors) |-> Butterfly_matrix(h, P.factors[j])])

\* (prob @ stack.reshape(stack.shape[0], -1)).reshape((-1,) + stack.shape[1:])
AveragedMatrices(prob, stack) ==
    IF IsErr(stack) THEN RuntimeError
    ELSE LET flat == Matmul(prob, Flatten2(stack))
         IN  IF IsErr(flat) THEN RuntimeError
             ELSE Reshape(flat, <<prob.shape[1]>> \o Tail(stack.shape))

\* functools.reduce(self.matmul_op, matrices) of the matrices stacked in one
\* tensor (for matrix in matrices iterates over its first dimension)
ReduceStacked(P, matrices) ==
    IF IsErr(matrices) THEN RuntimeError
    ELSE reduce_matmul(P, List([i \in 1..matrices.shape[1] |-> Select(matrices, i - 1)]))

\* MatrixProduct.matrix(temperature): a new tensor, or RuntimeError
MatrixProduct_matrix(h, P, temperature) ==
    IF P.fixed_order THEN reduce_matmul(P, FactorMatrices(h, P))
    ELSE ReduceStacked(P, AveragedMatrices(Prob(h, P, temperature),
                                           TorchStack(FactorMatrices(h, P))))

\* A slip in the fixed-order loop: the factors are applied in list order,
\* for factor in self.factors.
RECURSIVE ForwardFixedListOrder(_, _, _)
ForwardFixedListOrder(o, factors, j) ==
    IF o.raised \/ j = 0 THEN o
    ELSE ForwardFixedListOrder(Butterfly_forward(o.heap, factors[Len(factors) - j + 1], o.ret),
                               factors, j - 1)

\* for factor in self.factors[::-1]: output = factor(output)
\* (j is the factor applied next, o the outcome so far, o.ret the cell of
\* output)
RECURSIVE ForwardFixed(_, _, _)
ForwardFixed(o, factors, j) ==
    IF o.raised \/ j = 0 THEN o
    ELSE ForwardFixed(Butterfly_forward(o.heap, factors[j], o.ret), factors, j - 1)

\* the list comprehension so far: the heap and the cells of the results
NoOutputs(h) == [heap |-> h, cells |-> <<>>, raised |-> FALSE]

AddOutput(outs, r) ==
    [heap |-> r.heap, cells |-> Append(outs.cells, r.ret), raised |-> r.raised]

\* [factor(output) for factor in self.factors], from factor j on; out is the
\* cell of output
RECURSIVE FactorOutputs(_, _, _, _)
FactorOutputs(outs, factors, j, out) ==
    IF outs.raised \/ j > Len(factors) THEN outs
    ELSE FactorOutputs(AddOutput(outs, Butterfly_forward(outs.heap, factors[j], out)),
                       factors, j + 1, out)

\* (prob[i:i+1] @ stack.reshape(stack.shape[0], -1)).reshape(stack.shape[1:])
WeightedOutput(prob, i, stack) ==
    IF IsErr(stack) THEN RuntimeError
    ELSE Reshape(Matmul(Narrow(prob, 1, i, i + 1), Flatten2(stack)), Tail(stack.shape))

\* stack = torch.stack([...]); output = (prob[i:i+1] @ ...).reshape(...):
\* a new tensor
TermOutput(outs, prob, i) ==
    IF outs.raised THEN Raised(outs.heap)
    ELSE NewTensor(outs.heap,
                   WeightedOutput(prob, i,
                       TorchStack([j \in 1..Len(outs.cells) |-> outs.heap[outs.cells[j]]])))

\* A slip in the learned-order loop: the terms are handled in ascending
\* order, for i in range(self.n_terms).
RECURSIVE ForwardLearnedAscending(_, _, _, _)
ForwardLearnedAscending(o, P, prob, i) ==
    IF o.raised \/ i < 0 THEN o
    ELSE ForwardLearnedAscending(
             TermOutput(FactorOutputs(NoOutputs(o.heap), P.factors, 1, o.ret),
                        prob, P.n_terms - 1 - i),
             P, prob, i - 1)

\* for i in range(self.n_terms)[::-1]: ...   (i is the term handled next, o
\* the outcome so far, o.ret the cell of output)
RECURSIVE ForwardLearned(_, _, _, _)
ForwardLearned(o, P, prob, i) ==
    IF o.raised \/ i < 0 THEN o
    ELSE ForwardLearned(TermOutput(FactorOutputs(NoOutputs(o.heap), P.factors, 1, o.ret),
                                   prob, i),
                        P, prob, i - 1)

\* MatrixProduct.forward(input_, temperature), input_ the tensor in cell x
MatrixProduct_forward(h, P, x, temperature) ==
    IF P.fixed_order THEN ForwardFixed(Returned(h, x), P.factors, Len(P.factors))
    ELSE ForwardLearned(Returned(h, x), P, Prob(h, P, temperature), P.n_terms - 1)

(***************************************************************************)
(* sinkhorn                                                                *)
(***************************************************************************)
\* the default n_iters=5
DefaultNIters == 5

\* logit -= torch.logsumexp(logit, dim=dim, keepdim=True), on the cell's
\* w = exp(logit): every entry is divided by the sum over dimension dim
\* (dim = -1 is the last dimension, -2 the one before).  The new value of
\* the tensor.
SubLogsumexp(t, dim) ==
    Tensor(t.shape,
           LAMBDA idx : RDiv(At(t, idx), SumOver(t, Len(t.shape) + 1 + dim, idx)))

\* the update in place of the tensor object in cell c
SubLogsumexpInPlace(h, c, dim) == [h EXCEPT ![c] = SubLogsumexp(h[c], dim)]

\* One iteration of the loop, on the tensor object in cell c:
\* logit -= logsumexp(dim=-1), then logit -= logsumexp(dim=-2).
SinkhornIteration(h, c) == SubLogsumexpInPlace(SubLogsumexpInPlace(h, c, -1), c, -2)

RECURSIVE SinkhornLoop(_, _, _)
SinkhornLoop(h, c, n) ==
    IF n <= 0 THEN h ELSE SinkhornLoop(SinkhornIteration(h, c), c, n - 1)

\* torch.exp(logit): a new tensor with the cell's w
TorchExp(h, c) == NewTensor(h, h[c])

\* the two assertions: logit.dim() >= 2 and logit.shape[-2] == logit.shape[-1]
SinkhornAsserts(t) ==
    /\ Len(t.shape) >= 2
    /\ t.shape[Len(t.shape) - 1] = t.shape[Len(t.shape)]

\* sinkhorn(logit, n_iters), logit the tensor object in cell c: the loop
\* updates that object, torch.exp(logit) is a new tensor (the cell's w).
sinkhorn(h, c, n_iters) ==
    IF ~SinkhornAsserts(h[c]) THEN Raised(h)
    ELSE TorchExp(SinkhornLoop(h, c, n_iters), c)

(***************************************************************************)
(* class ButterflyProduct(MatrixProduct)                                   *)
(***************************************************************************)
\* int(math.log2(size)) for size >= 1
RECURSIVE ILog2(_)
ILog2(size) == IF size < 2 THEN 0 ELSE 1 + ILog2(size \div 2)

\* 1 << i
Shl1(i) == 2 ^ i

\* assert size == 1 << m
ButterflyProductAsserts(size) == size = Shl1(ILog2(size))

\* the draws of the parameters of the factors: factor j of the list draws
\* the seeds FactorSeeds(r, j), for a draw r of the whole list
FactorSeeds(r, j) == SeedsList[((r + j) % Len(SeedsList)) + 1]

\* factors = [Butterfly(size, diagonal=d, complex=complex) for d in diagonals]:
\* the heap and the list of the factors, built from position j on
RECURSIVE NewFactors(_, _, _, _, _, _)
NewFactors(h, size, complex, diagonals, r, j) ==
    IF j > Len(diagonals) THEN [heap |-> h, factors |-> <<>>]
    ELSE LET f    == ButterflyNew(h, size, diagonals[j], complex, 0, 0, 0, FactorSeeds(r, j))
             rest == NewFactors(f.heap, size, complex, diagonals, r, j + 1)
         IN  [heap |-> rest.heap, factors |-> <<f.obj>> \o rest.factors]

\* A slip in the list of offsets: ascending, [1 << i for i in range(m)].
ButterflyDiagonalsAscending(m) == [j \in 1..m |-> Shl1(j - 1)]

\* [1 << i for i in range(m)[::-1]]
ButterflyDiagonals(m) == [j \in 1..m |-> Shl1(m - j)]

\* torch.randn((size, size)) for perm_logit, as w = exp(logit) > 0: here a
\* circulant matrix
randn_perm(size) ==
    Tensor(<<size, size>>,
           LAMBDA idx : Q(IF (idx[2] - idx[1] + size) % size = 1 THEN 2 ELSE 1))

\* MatrixProduct.__init__(factors, ...) on the factors built
ProductOfFactors(fs, n_terms, complex, fixed_order, softmax_fn, seed) ==
    MatrixProductNew(fs.heap, fs.factors, n_terms, complex, fixed_order, softmax_fn, seed)

\* self.learn_perm = learn_perm, and self.perm_logit (a new cell) if learn_perm
WithPermLogit(mp, size, learn_perm) ==
    IF learn_perm
    THEN [heap |-> Append(mp.heap, randn_perm(size)),
          obj  |-> [cls |-> "ButterflyProduct", size |-> size, learn_perm |-> TRUE,
                    perm_logit |-> Len(mp.heap) + 1] @@ mp.obj]
    ELSE [heap |-> mp.heap,
          obj  |-> [cls |-> "ButterflyProduct", size |-> size, learn_perm |-> FALSE,
                    perm_logit |-> 0] @@ mp.obj]

\* ButterflyProduct.__init__ once the assertions hold
ButterflyProductNew(h, size, n_terms, complex, fixed_order, learn_perm, softmax_fn, r, seed) ==
    WithPermLogit(ProductOfFactors(NewFactors(h, size, complex,
                                              ButterflyDiagonals(ILog2(size)), r, 1),
                                   n_terms, complex, fixed_order, softmax_fn, seed),
                  size, learn_perm)

\* A slip in the call of sinkhorn: the division is made in place,
\* sinkhorn(self.perm_logit.div_(temperature)), so that sinkhorn updates the
\* parameter itself.
PermInPlace(h, B, temperature) ==
    sinkhorn([h EXCEPT ![B.perm_logit] = DivTemperature(h[B.perm_logit], temperature)],
             B.perm_logit, DefaultNIters)

\* perm = sinkhorn(self.perm_logit / temperature): the division is a new
\* tensor, which sinkhorn updates in place
Perm(h, B, temperature) ==
    sinkhorn(Append(h, DivTemperature(h[B.perm_logit], temperature)), Len(h) + 1,
             DefaultNIters)

\* matrix = matrix @ perm, p the outcome of the call of sinkhorn
MatmulPerm(m, p) ==
    IF IsErr(m) \/ p.raised THEN Raised(p.heap)
    ELSE NewTensor(p.heap, Matmul(m, p.heap[p.ret]))

\* ButterflyProduct.matrix(temperature)
ButterflyProduct_matrix(h, B, temperature) ==
    IF B.learn_perm
    THEN MatmulPerm(MatrixProduct_matrix(h, B, temperature), Perm(h, B, temperature))
    ELSE NewTensor(h, MatrixProduct_matrix(h, B, temperature))

\* input_ @ perm.t(), or (input_.transpose(-1, -2) @ perm.t()).transpose(-1, -2)
PermuteInput(B, xv, perm) ==
    IF ~B.complex THEN Matmul(xv, Transpose(perm))
    ELSE TransposeDims(Matmul(TransposeDims(xv, Len(xv.shape) - 1, Len(xv.shape)),
                              Transpose(perm)),
                       Len(xv.shape) - 1, Len(xv.shape))

\* input_ = <input_ permuted>: a new tensor, p the outcome of the call of
\* sinkhorn
PermutedInput(p, B, x) ==
    IF p.raised THEN p ELSE NewTensor(p.heap, PermuteInput(B, p.heap[x], p.heap[p.ret]))

\* return super().forward(input_, temperature)
SuperForward(i, B, temperature) ==
    IF i.raised THEN i ELSE MatrixProduct_forward(i.heap, B, i.ret, temperature)

\* ButterflyProduct.forward(input_, temperature), input_ the tensor in cell x
ButterflyProduct_forward(h, B, x, temperature) ==
    IF B.learn_perm
    THEN SuperForward(PermutedInput(Perm(h, B, temperature), B, x), B, temperature)
    ELSE MatrixProduct_forward(h, B, x, temperature)

(***************************************************************************)
(* The state machine.                                                      *)
(*   heap      the tensors held by reference: the caller's and the         *)
(*             object's parameters                                         *)
(*   obj       the constructed module (NoObj before construction)          *)
(*   args      the arguments of the constructor call                       *)
(*   err       "" or the exception the constructor raised                  *)
(*   ret       the last call: its arguments (x is the value of the input   *)
(*             tensor when it was passed) and what it returned             *)
(*   x_after   the value the caller's input tensor holds after the last    *)
(*             call (None when the call took no input)                     *)
(***************************************************************************)
NoCall == [op |-> "none", temperature |-> <<1, 1>>, x |-> None, val |-> None]

NoArgs == [cls |-> "None"]

Fresh ==
    /\ heap = CallerHeap
    /\ obj = NoObj
    /\ args = NoArgs
    /\ err = ""
    /\ x_after = None
    /\ ret = NoCall

NotConstructed == obj = NoObj /\ err = ""

\* The constructor raised: nothing is constructed.
ConstructorRaises(a, e) ==
    /\ args' = a
    /\ err' = e
    /\ UNCHANGED <<heap, obj, x_after, ret>>

Constructed(a, new) ==
    /\ args' = a
    /\ heap' = new.heap
    /\ obj' = new.obj
    /\ UNCHANGED <<err, x_after, ret>>

\* model = Butterfly(size, diagonal, complex, diag, subdiag, superdiag)
ButterflyInit(size, diagonal, complex, diag, subdiag, superdiag, seeds) ==
    /\ NotConstructed
    /\ LET a == [cls |-> "Butterfly", size |-> size, diagonal |-> diagonal,
                 complex |-> complex, diag |-> diag, subdiag |-> subdiag,
                 superdiag |-> superdiag]
       IN  IF ButterflyAsserts(heap, size, diagonal, complex, diag, subdiag, superdiag)
           THEN Constructed(a, ButterflyNew(heap, size, diagonal, complex,
                                            diag, subdiag, superdiag, seeds))
           ELSE ConstructorRaises(a, "AssertionError")

\* The inputs the callers pass: x = randn(shape, seed) for these seeds.
XSeeds == {<<1, 1>>, <<2, -1>>}

\* What is left of a call's outcome r, made with n cells held by the caller
\* and the object: the temporaries of the call are dropped.  The input
\* tensor of a forward call is cell n + 1 during the call.
AfterCall(r, n, op, temperature, xv) ==
    /\ heap' = SubSeq(r.heap, 1, n)
    /\ ret' = [op |-> op, temperature |-> temperature, x |-> xv,
               val |-> IF r.raised THEN RuntimeError ELSE r.heap[r.ret]]
    /\ x_after' = IF op = "forward" THEN r.heap[n + 1] ELSE None
    /\ UNCHANGED <<obj, args, err>>

\* model.matrix() on a Butterfly
ButterflyMatrix ==
    /\ obj.cls = "Butterfly"
    /\ AfterCall(NewTensor(heap, Butterfly_matrix(heap, obj)), Len(heap),
                 "matrix", <<1, 1>>, None)

\* model.forward(x) on a Butterfly
ButterflyForward(seed) ==
    /\ obj.cls = "Butterfly"
    /\ LET xv == randn(diag_shape(obj.size, obj.complex), seed)
       IN  AfterCall(Butterfly_forward(Append(heap, xv), obj, Len(heap) + 1), Len(heap),
                     "forward", <<1, 1>>, xv)

\* The diagonals a caller may ask for.
Diagonals == -1..MaxSize

(***************************************************************************)
(* Constructing and calling a MatrixProduct or a ButterflyProduct.         *)
(***************************************************************************)
\* MatrixProduct of 1..MaxFactors factors, each of size 2..MaxProductSize
MaxFactors == 2

MaxProductSize == 3

\* ButterflyProduct(size) for size in 1..MaxButterflySize
MaxButterflySize == 4

\* The <<n_terms, fixed_order, softmax_fn>> the callers pass.
CtorChoices ==
    {<<NTermsNone, FALSE, "softmax">>, <<3, FALSE, "softmax">>,
     <<NTermsNone, FALSE, "sparsemax">>, <<NTermsNone, FALSE, "hardmax">>,
     <<NTermsNone, TRUE, "softmax">>, <<2, TRUE, "hardmax">>}

\* the draw of the selection logits, as w = exp(logit) > 0
LogitSeed == <<1, 1>>

\* model = MatrixProduct([Butterfly(size, d, complex) for d in diagonals],
\*                       n_terms, complex, fixed_order, softmax_fn)
MatrixProductInit(size, complex, diagonals, r, n_terms, fixed_order, softmax_fn) ==
    /\ NotConstructed
    /\ LET a  == [cls |-> "MatrixProduct", size |-> size, complex |-> complex,
                  diagonals |-> diagonals, n_terms |-> n_terms,
                  fixed_order |-> fixed_order, softmax_fn |-> softmax_fn]
       IN  IF MatrixProductAsserts(fixed_order, softmax_fn)
           THEN Constructed(a, ProductOfFactors(NewFactors(heap, size, complex, diagonals, r, 1),
                                                n_terms, complex, fixed_order, softmax_fn,
                                                LogitSeed))
           ELSE ConstructorRaises(a, "AssertionError")

\* model = ButterflyProduct(size, n_terms, complex, fixed_order, learn_perm, softmax_fn)
ButterflyProductInit(size, n_terms, complex, fixed_order, learn_perm, softmax_fn, r) ==
    /\ NotConstructed
    /\ LET a == [cls |-> "ButterflyProduct", size |-> size, complex |-> complex,
                 n_terms |-> n_terms, fixed_order |-> fixed_order,
                 learn_perm |-> learn_perm, softmax_fn |-> softmax_fn]
       IN  IF ButterflyProductAsserts(size) /\ MatrixProductAsserts(fixed_order, softmax_fn)
           THEN Constructed(a, ButterflyProductNew(heap, size, n_terms, complex, fixed_order,
                                                   learn_perm, softmax_fn, r, LogitSeed))
           ELSE ConstructorRaises(a, "AssertionError")

IsProduct == obj.cls \in {"MatrixProduct", "ButterflyProduct"}

\* hard selections: row i selects factor (i + shift) mod m, as w = exp(logit)
\* with w = 0 for the logit -inf (test_butterfly_product: shift 0, 2 by 2)
OneHotLogit(t, m, shift) ==
    Tensor(<<t, m>>, LAMBDA idx : Q(IF idx[2] = (idx[1] + shift) % m THEN 3 ELSE 0))

\* model.logit = nn.Parameter(...), before the calls
SetLogit(shift) ==
    /\ IsProduct /\ ~obj.fixed_order /\ ret.op = "none"
    /\ Len(obj.factors) > 0
    /\ heap' = [heap EXCEPT ![obj.logit] = OneHotLogit(obj.n_terms, Len(obj.factors), shift)]
    /\ UNCHANGED <<obj, args, err, x_after, ret>>

\* permutation weights w = exp(perm_logit): the reversal (a hard permutation,
\* kind 0), or the identity and one more entry in the last row (kind 1)
PermLogit(n, kind) ==
    Tensor(<<n, n>>,
           LAMBDA idx :
               IF kind = 0 THEN Q(IF idx[1] + idx[2] = n - 1 THEN 2 ELSE 0)
               ELSE Q(IF idx[1] = idx[2] \/ (idx[1] = n - 1 /\ idx[2] = 0) THEN 1 ELSE 0))

\* model.perm_logit = nn.Parameter(...), before the calls
SetPermLogit(kind) ==
    /\ obj.cls = "ButterflyProduct" /\ obj.learn_perm /\ ret.op = "none"
    /\ heap' = [heap EXCEPT ![obj.perm_logit] = PermLogit(obj.size, kind)]
    /\ UNCHANGED <<obj, args, err, x_after, ret>>

\* The temperatures the callers pass: 1.0 and 0.5.
Temperatures == {<<1, 1>>, <<1, 2>>}

\* The <<x seed, temperature>> of the forward calls.
ForwardChoices == {<<<<1, 1>>, <<1, 1>>>>, <<<<2, -1>>, <<1, 2>>>>}

\* Calls are modelled on the objects whose selection function is modelled
\* (sparsemax, of sparsemax.py, is not).
Callable == IsProduct /\ (obj.fixed_order \/ obj.softmax_fn = "softmax")

\* model.matrix(temperature)
matrix(h, o, temperature) ==
    IF o.cls = "ButterflyProduct" THEN ButterflyProduct_matrix(h, o, temperature)
    ELSE NewTensor(h, MatrixProduct_matrix(h, o, temperature))

\* model.forward(x, temperature) = model(x, temperature)
forward(h, o, x, temperature) ==
    IF o.cls = "ButterflyProduct" THEN ButterflyProduct_forward(h, o, x, temperature)
    ELSE MatrixProduct_forward(h, o, x, temperature)

ProductMatrix(temperature) ==
    /\ Callable
    /\ AfterCall(matrix(heap, obj, temperature), Len(heap), "matrix", temperature, None)

ProductForward(seed, temperature) ==
    /\ Callable
    /\ LET xv == randn(diag_shape(args.size, obj.complex), seed)
       IN  AfterCall(forward(Append(heap, xv), obj, Len(heap) + 1, temperature), Len(heap),
                     "forward", temperature, xv)

\* the lists of 1..MaxFactors offsets in 1..size-1
DiagonalLists(size) ==
    UNION {[1..m -> 1..(size - 1)] : m \in 1..MaxFactors}

Calls ==
    \/ \E temperature \in Temperatures : ProductMatrix(temperature)
    \/ \E c \in ForwardChoices : ProductForward(c[1], c[2])
    \/ \E shift \in 0..1 : SetLogit(shift)

SetPermLogits == \E kind \in 0..1 : SetPermLogit(kind)

MatrixProductInits ==
    \E size \in 2..MaxProductSize, complex \in BOOLEAN, c \in CtorChoices :
        \E diagonals \in DiagonalLists(size) :
            MatrixProductInit(size, complex, diagonals, 0, c[1], c[2], c[3])

ButterflyProductInits ==
    \E size \in 1..MaxButterflySize, complex \in BOOLEAN, learn_perm \in BOOLEAN,
       c \in CtorChoices :
        ButterflyProductInit(size, c[1], complex, c[2], learn_perm, c[3], 0)

ButterflyInits ==
    \E size \in 1..MaxSize, diagonal \in Diagonals, complex \in BOOLEAN,
       t \in TensorArgs, seeds \in Seeds3 :
        ButterflyInit(size, diagonal, complex, t[1], t[2], t[3], seeds)

ButterflyCalls ==
    \/ ButterflyMatrix
    \/ \E seed \in XSeeds : ButterflyForward(seed)

NextMatrixProduct == MatrixProductInits \/ Calls

NextButterflyProduct == ButterflyProductInits \/ Calls \/ SetPermLogits

NextButterfly == ButterflyInits \/ ButterflyCalls

\* one object of any of the three classes
Next ==
    \/ ButterflyInits
    \/ MatrixProductInits
    \/ ButterflyProductInits
    \/ ButterflyCalls
    \/ Calls
    \/ SetPermLogits

SpecMatrixProduct == Fresh /\ [][NextMatrixProduct]_vars

SpecButterflyProduct == Fresh /\ [][NextButterflyProduct]_vars

SpecButterfly == Fresh /\ [][NextButterfly]_vars

Spec == Fresh /\ [][Next]_vars

(***************************************************************************)
(* A caller of sinkhorn: it makes a tensor t (the cell after its own       *)
(* tensors) and calls sinkhorn(t, n_iters) on that tensor object, again    *)
(* and again.  ret is the last call: the value of t when it was passed     *)
(* (x), n_iters, what the call returned (val; None when it raised) and the *)
(* number of calls made on t so far (nth); x_after is the value t holds    *)
(* after the call; err is what the call raised.                            *)
(***************************************************************************)
\* the shapes of the tensors the caller makes: square, batches of squares,
\* not square, and 1-D
LogitShapes ==
    {<<1, 1>>, <<2, 2>>, <<3, 3>>, <<2, 2, 2>>, <<2, 3>>, <<3, 2>>, <<2, 3, 2>>,
     <<2>>, <<3>>}

\* the values: w = exp(logit) > 0 is (1 + (a*o + b) mod 3) / q at offset o
LogitSeeds == {<<0, 0, 1>>, <<1, 0, 1>>, <<1, 1, 1>>, <<2, 1, 1>>, <<0, 0, 2>>, <<0, 0, 3>>}

\* t = torch.tensor(...)
LogitTensor(shape, seed) ==
    [shape |-> shape,
     data  |-> List([o \in 1..Numel(shape) |->
                         Rat(1 + ((seed[1] * (o - 1) + seed[2]) % 3), seed[3])])]

\* the cell of t
LogitCell == Len(CallerHeap) + 1

\* the caller calls sinkhorn on t at most MaxCalls times, with n_iters in
\* 1..MaxNIters
MaxCalls == 2

MaxNIters == 2

\* t = torch.tensor(...)
TorchTensor(shape, seed) ==
    /\ obj = NoObj /\ Len(heap) = Len(CallerHeap)
    /\ heap' = Append(heap, LogitTensor(shape, seed))
    /\ UNCHANGED <<obj, args, err, x_after, ret>>

\* sinkhorn(t, n_iters): the tensors the call made are dropped, t stays
SinkhornCall(n_iters) ==
    /\ Len(heap) = LogitCell
    /\ ret.op = "none" \/ (ret.op = "sinkhorn" /\ ret.nth < MaxCalls)
    /\ LET r == sinkhorn(heap, LogitCell, n_iters)
       IN  /\ heap' = SubSeq(r.heap, 1, LogitCell)
           /\ ret' = [op |-> "sinkhorn", n_iters |-> n_iters, x |-> heap[LogitCell],
                      val |-> IF r.raised THEN None ELSE r.heap[r.ret],
                      nth |-> IF ret.op = "none" THEN 1 ELSE ret.nth + 1]
           /\ x_after' = r.heap[LogitCell]
           /\ err' = IF r.raised THEN "AssertionError" ELSE ""
    /\ UNCHANGED <<obj, args>>

NextSinkhorn ==
    \/ \E shape \in LogitShapes, seed \in LogitSeeds : TorchTensor(shape, seed)
    \/ \E n_iters \in 1..MaxNIters : SinkhornCall(n_iters)

SpecSinkhorn == Fresh /\ [][NextSinkhorn]_vars

(***************************************************************************)
(* Claims about the Butterfly factor.                                      *)
(***************************************************************************)
\* a factor whose offset k satisfies 0 < k < n
ValidButterfly ==
    obj.cls = "Butterfly" /\ 0 < obj.diagonal /\ obj.diagonal < obj.size

\* x @ matrix().transpose(), as test_butterfly computes it
XMatrixT(m, xv, complex) ==
    IF complex THEN complex_matmul(xv, TransposeDims(m, 1, 2))
    ELSE Matmul(xv, Transpose(m))

\* term(i, c): component c of a[ia] * x[ix] (the complex product rule when
\* the factor is complex)
FactorTerm(F, a, ia, xv, ix, c) ==
    IF ~F.complex THEN RMul(At(a, <<ia>>), At(xv, <<ix>>))
    ELSE IF c = 0
         THEN CMulRe(At(a, <<ia, 0>>), At(a, <<ia, 1>>), At(xv, <<ix, 0>>), At(xv, <<ix, 1>>))
         ELSE CMulIm(At(a, <<ia, 0>>), At(a, <<ia, 1>>), At(xv, <<ix, 0>>), At(xv, <<ix, 1>>))

\* output[i] = diag[i]*x[i] + subdiag[i-k]*x[i-k] (i >= k) + superdiag[i]*x[i+k] (i < n-k)
ExpectedForward(h, F, xv) ==
    LET k == F.diagonal
        n == F.size
    IN  Tensor(xv.shape,
            LAMBDA idx :
                LET i == idx[1]
                    c == IF F.complex THEN idx[2] ELSE 0
                IN  RAdd(RAdd(FactorTerm(F, h[F.diag], i, xv, i, c),
                              IF i >= k THEN FactorTerm(F, h[F.subdiag], i - k, xv, i - k, c)
                              ELSE Q(0)),
                         IF i < n - k THEN FactorTerm(F, h[F.superdiag], i, xv, i + k, c)
                         ELSE Q(0)))

\* C1: for every Butterfly factor with 0 < k < n, real or complex, and every
\* input x, forward(x) equals x @ matrix().transpose(), that is
\* output[i] = diag[i]*x[i] + subdiag[i-k]*x[i-k] (when i >= k)
\*             + superdiag[i]*x[i+k] (when i < n-k).
C1_ForwardIsMatrixTranspose ==
    (ValidButterfly /\ ret.op = "forward") =>
        /\ ret.val = XMatrixT(Butterfly_matrix(heap, obj), ret.x, obj.complex)
        /\ ret.val = ExpectedForward(heap, obj, ret.x)

\* forward returned on a complex factor whose offset has n - k < k
C1_Witness ==
    /\ ValidButterfly /\ ret.op = "forward"
    /\ obj.complex /\ obj.size - obj.diagonal < obj.diagonal
    /\ ~IsErr(ret.val) /\ ret.val.shape = <<obj.size, 2>>

\* the entry (i, j) of slab c of the matrix of factor F
ExpectedEntry(h, F, i, j, c) ==
    LET k  == F.diagonal
        ix(p) == IF F.complex THEN <<p, c>> ELSE <<p>>
    IN  IF i = j THEN At(h[F.diag], ix(i))
        ELSE IF i = j + k THEN At(h[F.subdiag], ix(j))
        ELSE IF j = i + k THEN At(h[F.superdiag], ix(i))
        ELSE Q(0)

ExpectedMatrix(h, F) ==
    Tensor(IF F.complex THEN <<F.size, F.size, 2>> ELSE <<F.size, F.size>>,
           LAMBDA idx : ExpectedEntry(h, F, idx[1], idx[2],
                                      IF F.complex THEN idx[3] ELSE 0))

\* the slab [..., c] of a complex matrix
Slab(m, c) == Tensor(<<m.shape[1], m.shape[2]>>, LAMBDA idx : At(m, <<idx[1], idx[2], c>>))

\* the construction of test_butterfly
IsTestButterfly ==
    /\ obj.cls = "Butterfly" /\ obj.size = 4 /\ obj.diagonal = 1 /\ obj.complex
    /\ heap[obj.diag] = test_diag
    /\ heap[obj.subdiag] = test_subdiag /\ heap[obj.superdiag] = test_subdiag

\* C2: for every Butterfly factor with 0 < k < n, matrix() holds diag[i] at
\* (i, i), subdiag[i] at (i+k, i), superdiag[i] at (i, i+k) and zero elsewhere
\* (per slab when complex); and the factor of test_butterfly has the real and
\* the imaginary matrix the test states.
C2_MatrixBands ==
    (ValidButterfly /\ ret.op = "matrix") =>
        /\ ret.val = ExpectedMatrix(heap, obj)
        /\ IsTestButterfly =>
              /\ Slab(ret.val, 0) = FromInts(<<4, 4>>, <<1, 11, 0, 0,  11, 2, 12, 0,
                                                        0, 12, 3, 13,  0, 0, 13, 4>>)
              /\ Slab(ret.val, 1) = FromInts(<<4, 4>>, <<2, 12, 0, 0,  12, 3, 13, 0,
                                                        0, 13, 4, 14,  0, 0, 14, 5>>)

\* matrix() returned on the factor of test_butterfly
C2_Witness == IsTestButterfly /\ ret.op = "matrix" /\ ~IsErr(ret.val)

\* C6: every constructed Butterfly factor has 0 < diagonal < size: no factor
\* with an out-of-range offset reaches matrix() or forward().
C6_OffsetInRange ==
    (obj.cls = "Butterfly" /\ ret.op \in {"matrix", "forward"}) =>
        (0 < obj.diagonal /\ obj.diagonal < obj.size)

(***************************************************************************)
(* Claims about MatrixProduct.                                             *)
(***************************************************************************)
\* a MatrixProduct with a non-empty factor list
IsMatrixProduct == obj.cls = "MatrixProduct" /\ Len(obj.factors) > 0

\* entry (i, j), component c, of the product a b of two dense matrices
ProductEntry(complex, a, b, i, j, c) ==
    RSum([k \in 1..a.shape[2] |->
        IF ~complex THEN RMul(At(a, <<i, k - 1>>), At(b, <<k - 1, j>>))
        ELSE IF c = 0
             THEN CMulRe(At(a, <<i, k - 1, 0>>), At(a, <<i, k - 1, 1>>),
                         At(b, <<k - 1, j, 0>>), At(b, <<k - 1, j, 1>>))
             ELSE CMulIm(At(a, <<i, k - 1, 0>>), At(a, <<i, k - 1, 1>>),
                         At(b, <<k - 1, j, 0>>), At(b, <<k - 1, j, 1>>))])

\* the product a b of two dense matrices
DenseProduct(complex, a, b) ==
    Tensor(IF complex THEN <<a.shape[1], b.shape[2], 2>> ELSE <<a.shape[1], b.shape[2]>>,
           LAMBDA idx : ProductEntry(complex, a, b, idx[1], idx[2],
                                     IF complex THEN idx[3] ELSE 0))

\* the ordered product ms[1] ms[2] ... of a non-empty list of dense matrices
RECURSIVE OrderedProduct(_, _)
OrderedProduct(complex, ms) ==
    IF Len(ms) = 1 THEN ms[1]
    ELSE DenseProduct(complex, ms[1], OrderedProduct(complex, Tail(ms)))

\* every row of the selection weights w = exp(logit) has one non-zero entry
IsOneHot(t) ==
    \A i \in 0..(t.shape[1] - 1) :
        \E j \in 0..(t.shape[2] - 1) :
            /\ At(t, <<i, j>>) # Q(0)
            /\ \A l \in 0..(t.shape[2] - 1) : l # j => At(t, <<i, l>>) = Q(0)

HardSelection == obj.fixed_order \/ IsOneHot(heap[obj.logit])

\* s(i): the factor that term i selects (from 1)
SelectedFactor(i) ==
    CHOOSE j \in 1..Len(obj.factors) : At(heap[obj.logit], <<i, j - 1>>) # Q(0)

\* the dense matrices of the selected factors: F1..Fm, or F_s(1)..F_s(t)
SelectedMatrices ==
    IF obj.fixed_order
    THEN List([j \in 1..Len(obj.factors) |-> ExpectedMatrix(heap, obj.factors[j])])
    ELSE List([i \in 1..obj.n_terms |->
                  ExpectedMatrix(heap, obj.factors[SelectedFactor(i - 1)])])

\* the matrices ms applied to xv one after the other, ms[j] first and ms[1] last
RECURSIVE AppliedFrom(_, _, _)
AppliedFrom(ms, j, xv) ==
    IF j = 0 THEN xv ELSE AppliedFrom(ms, j - 1, XMatrixT(ms[j], xv, obj.complex))

\* C3: for a MatrixProduct with a non-empty factor list under hard selection
\* (fixed-order mode, or learned-order mode with one-hot probability rows, the
\* term count possibly different from the number of factors), matrix() is
\* the left-to-right product of the selected factors' matrices, and forward(x)
\* applies the same factors rightmost first, so that it equals
\* x @ matrix().transpose().
C3_HardSelectionProduct ==
    (IsMatrixProduct /\ HardSelection /\ ret.op # "none") =>
        /\ ret.op = "matrix" =>
              ret.val = OrderedProduct(obj.complex, SelectedMatrices)
        /\ ret.op = "forward" =>
              /\ ret.val = AppliedFrom(SelectedMatrices, Len(SelectedMatrices), ret.x)
              /\ ret.val = XMatrixT(OrderedProduct(obj.complex, SelectedMatrices),
                                    ret.x, obj.complex)

\* forward returned on a complex learned-order product of 2 factors with 3
\* one-hot terms (a factor is repeated)
C3_Witness ==
    /\ IsMatrixProduct /\ ~obj.fixed_order /\ IsOneHot(heap[obj.logit])
    /\ obj.n_terms = 3 /\ Len(obj.factors) = 2
    /\ obj.factors[1].diagonal # obj.factors[2].diagonal
    /\ obj.complex /\ ret.op = "forward" /\ ~IsErr(ret.val)

\* sum_j prob[i][j] * ts[j], for tensors ts of one shape
WeightedSum(prob, i, ts) ==
    Tensor(ts[1].shape,
           LAMBDA idx : RSum([j \in 1..Len(ts) |->
                                 RMul(At(prob, <<i, j - 1>>), At(ts[j], idx))]))

\* the averaged matrices sum_j prob[i][j] * F_j.matrix(), for the terms 0..t-1
ExpectedAverages(prob) ==
    List([i \in 1..obj.n_terms |->
             WeightedSum(prob, i - 1,
                 List([j \in 1..Len(obj.factors) |-> ExpectedMatrix(heap, obj.factors[j])]))])

\* the vector after the terms t-1 down to i: each term replaces it by
\* sum_j prob[i][j] * F_j(vector)
RECURSIVE SoftApplied(_, _, _)
SoftApplied(prob, i, xv) ==
    IF i >= obj.n_terms THEN xv
    ELSE WeightedSum(prob, i,
             List([j \in 1..Len(obj.factors) |->
                      ExpectedForward(heap, obj.factors[j], SoftApplied(prob, i + 1, xv))]))

\* C4: in learned-order mode, for every selection weight matrix prob (rows
\* need not be one-hot) and every input x, forward(x), which for the terms
\* i = t-1 down to 0 replaces the vector by sum_j prob[i][j] * F_j(vector),
\* equals x @ matrix().transpose(), matrix() being the ordered product over
\* the terms 0..t-1 of the averaged matrices sum_j prob[i][j] * F_j.matrix().
C4_SoftForwardIsMatrix ==
    (IsMatrixProduct /\ ~obj.fixed_order /\ ret.op # "none") =>
        /\ ret.op = "matrix" =>
              ret.val = OrderedProduct(obj.complex,
                            ExpectedAverages(Prob(heap, obj, ret.temperature)))
        /\ ret.op = "forward" =>
              /\ ret.val = SoftApplied(Prob(heap, obj, ret.temperature), 0, ret.x)
              /\ ret.val = XMatrixT(MatrixProduct_matrix(heap, obj, ret.temperature),
                                    ret.x, obj.complex)

\* forward returned at temperature 1/2 on a complex learned-order product of
\* 2 factors and 3 terms whose probability rows are soft
C4_Witness ==
    /\ IsMatrixProduct /\ ~obj.fixed_order
    /\ \A o \in 1..Len(heap[obj.logit].data) : heap[obj.logit].data[o] # Q(0)
    /\ obj.n_terms = 3 /\ Len(obj.factors) = 2
    /\ obj.factors[1].diagonal # obj.factors[2].diagonal
    /\ obj.complex /\ ret.op = "forward" /\ ret.temperature = <<1, 2>>
    /\ ~IsErr(ret.val)

(***************************************************************************)
(* Claims about the construction of the products.                          *)
(***************************************************************************)
IsPowerOfTwo(n) == \E m \in 0..n : n = 2 ^ m

\* C5: ButterflyProduct construction succeeds exactly when size is a power
\* of two (any other positive size is rejected with a fatal error); for
\* size n = 2^m it registers exactly m Butterfly factors of offsets
\* 2^(m-1), ..., 2^0 in list order, each with 0 < offset < n, and the term
\* count defaults to m.
C5_PowerOfTwoFactors ==
    (args.cls = "ButterflyProduct"
        /\ MatrixProductAsserts(args.fixed_order, args.softmax_fn)) =>
        /\ (obj # NoObj) <=> IsPowerOfTwo(args.size)
        /\ (obj = NoObj) => err = "AssertionError"
        /\ (obj # NoObj) =>
              LET m == CHOOSE m \in 0..args.size : args.size = 2 ^ m
              IN  /\ obj.cls = "ButterflyProduct"
                  /\ Len(obj.factors) = m
                  /\ \A j \in 1..m :
                        /\ obj.factors[j].cls = "Butterfly"
                        /\ obj.factors[j].size = args.size
                        /\ obj.factors[j].diagonal = 2 ^ (m - j)
                        /\ 0 < obj.factors[j].diagonal
                        /\ obj.factors[j].diagonal < args.size
                  /\ \A j \in 1..(m - 1) :
                        obj.factors[j].diagonal > obj.factors[j + 1].diagonal
                  /\ (args.n_terms = NTermsNone) => obj.n_terms = m

\* ButterflyProduct(4) with the default term count is constructed
C5_Witness ==
    /\ args.cls = "ButterflyProduct" /\ args.size = 4 /\ args.n_terms = NTermsNone
    /\ obj # NoObj /\ Len(obj.factors) = 2

\* C7: constructing a MatrixProduct or a ButterflyProduct with a softmax_fn
\* other than 'softmax' or 'sparsemax' is a fatal error at construction, in
\* learned-order and in fixed-order mode.
C7_UnknownSoftmaxFnRejected ==
    (args.cls \in {"MatrixProduct", "ButterflyProduct"}
        /\ ~SoftmaxFnKnown(args.softmax_fn)) =>
        (obj = NoObj /\ err # "")

(***************************************************************************)
(* Claims about the learned permutation.                                   *)
(***************************************************************************)
\* the Sinkhorn output P for the parameters in heap h
SoftPermutation(h, B, temperature) ==
    LET p == Perm(h, B, temperature) IN p.heap[p.ret]

\* M P: result[i][j] = sum_k M[i][k] * P[k][j], for each of the components
\* real and imag when complex
TimesPermutation(complex, M, P) ==
    Tensor(M.shape,
           LAMBDA idx : RSum([k \in 1..M.shape[2] |->
                                 RMul(At(M, [idx EXCEPT ![2] = k - 1]),
                                      At(P, <<k - 1, idx[2]>>))]))

\* C10: for a ButterflyProduct with learn_perm=True and the Sinkhorn output
\* P, real or complex, matrix() equals M P for the composed butterfly matrix
\* M (per component when complex), and forward(x) equals
\* x @ matrix().transpose() for every input x.
C10_PermutedProduct ==
    (obj.cls = "ButterflyProduct" /\ obj.learn_perm /\ Len(obj.factors) > 0
        /\ ret.op # "none") =>
        /\ ret.op = "matrix" =>
              ret.val = TimesPermutation(obj.complex,
                            MatrixProduct_matrix(heap, obj, ret.temperature),
                            SoftPermutation(heap, obj, ret.temperature))
        /\ ret.op = "forward" =>
              ret.val = XMatrixT(TimesPermutation(obj.complex,
                                     MatrixProduct_matrix(heap, obj, ret.temperature),
                                     SoftPermutation(heap, obj, ret.temperature)),
                                 ret.x, obj.complex)

\* the same statement for the real variant only
RealPermutedProduct ==
    (obj.cls = "ButterflyProduct" /\ ~obj.complex) => C10_PermutedProduct

(***************************************************************************)
(* Claims about the effects of the calls.                                  *)
(***************************************************************************)
\* the outcome of the call that ret records, made once more with the same
\* arguments (the same input tensor object) on the tensors as they are now
Repeated ==
    IF obj.cls = "Butterfly"
    THEN IF ret.op = "matrix" THEN NewTensor(heap, Butterfly_matrix(heap, obj))
         ELSE Butterfly_forward(Append(heap, x_after), obj, Len(heap) + 1)
    ELSE IF ret.op = "matrix" THEN matrix(heap, obj, ret.temperature)
         ELSE forward(Append(heap, x_after), obj, Len(heap) + 1, ret.temperature)

ValueOf(r) == IF r.raised THEN RuntimeError ELSE r.heap[r.ret]

\* every tensor the object or the caller holds has the value it had before
\* the call, and the input tensor x the value the caller passed
TensorsUnchanged ==
    /\ heap' = heap
    /\ ret'.op = "forward" => x_after' = ret'.x

\* C8: after any sequence of matrix(temperature) and forward(x, temperature)
\* calls on a Butterfly, MatrixProduct or ButterflyProduct (learn_perm=True
\* included), the object's parameters and the caller's input tensor x are
\* unchanged, and repeating the call with the same arguments returns the
\* same result.
C8_CallsLeaveTensorsUnchanged ==
    /\ [][ret'.op # "none" => TensorsUnchanged]_vars
    /\ [](ret.op # "none" => ValueOf(Repeated) = ret.val)

\* forward returned on a ButterflyProduct with learn_perm=True, after which
\* the permutation logits hold what they held at construction
C8_Witness ==
    /\ obj.cls = "ButterflyProduct" /\ obj.learn_perm /\ obj.size = 4
    /\ ret.op = "forward" /\ ~IsErr(ret.val)
    /\ heap[obj.perm_logit] = randn_perm(obj.size)

(***************************************************************************)
(* Claims about sinkhorn.                                                  *)
(***************************************************************************)
\* a call of sinkhorn on t has been made
SinkhornCalled == ret.op = "sinkhorn"

\* what sinkhorn(t, n_iters), made again on t as it is now, returns
SinkhornAgain ==
    LET r == sinkhorn(heap, LogitCell, ret.n_iters)
    IN  IF r.raised THEN None ELSE r.heap[r.ret]

\* C11: sinkhorn(logit, n_iters) is free of side effects on its caller: the
\* tensor passed as logit holds after the call the values it held before,
\* so the same call made again on the same tensor object returns an equal
\* result, for every square t and every n_iters >= 1; a logit that is not
\* square or has fewer than 2 dimensions is rejected (AssertionError) with
\* no value modified.
C11_SinkhornLeavesLogitUnchanged ==
    SinkhornCalled =>
        IF SinkhornAsserts(ret.x)
        THEN /\ err = ""
             /\ x_after = ret.x
             /\ heap[LogitCell] = ret.x
             /\ SinkhornAgain = ret.val
        ELSE /\ err = "AssertionError"
             /\ IsNone(ret.val)
             /\ x_after = ret.x
             /\ heap[LogitCell] = ret.x

\* What holds of the code: a rejected logit is left as it was, and an
\* accepted one is returned normalised, exp of the value the tensor object
\* holds after the call.
SinkhornRejectsUnmodified ==
    SinkhornCalled =>
        IF SinkhornAsserts(ret.x)
        THEN err = "" /\ ret.val = x_after /\ heap[LogitCell] = x_after
        ELSE err = "AssertionError" /\ IsNone(ret.val) /\ heap[LogitCell] = ret.x

====
